---- MODULE Spec2Model ----
(***************************************************************************)
(* A model of the in-memory user and entity registries of the backend API  *)
(* (routers/users.py, routers/entities.py) and of the health report        *)
(* (routers/health.py).                                                    *)
(*                                                                         *)
(* Every handler is a pure operator from the registry's state and the      *)
(* request to the new state and the response; the actions apply one        *)
(* handler per step, which is the one-request-at-a-time execution model.   *)
(*                                                                         *)
(* Encodings.  A Python dict is a sequence of entries [key, val] in        *)
(* insertion order.  An Optional value is a sequence of length at most     *)
(* one: <<>> is None, <<v>> is the value v.  A str that the code inspects  *)
(* character by character (the email) is a sequence of one-character       *)
(* strings; other strs are TLA+ strings.  A response is [status, body,     *)
(* detail], the body being the sequence of the returned objects (one for   *)
(* a single object, none for an error or for 204).                         *)
(***************************************************************************)
EXTENDS Integers, Sequences, FiniteSets, TLC

VARIABLES
    _IN_MEMORY_USERS,   \* users.py: the user store (dict id -> record)
    _NEXT_ID,           \* users.py: the next user id
    _ENTITIES,          \* entities.py: the entity store (dict id -> record)
    _ENTITIES_NEXT_ID,  \* entities.py: the next entity id
    resp,               \* the last request's registry, operation and status
    issued,             \* per registry, the ids returned by successful creates, in order
    deleted,            \* per registry, the ids whose delete succeeded
    run2,               \* a second run of the user registry (same requests, other
                        \* passwords): its store and counter, and the last step's
                        \* full response in the first and in the second run
    pw_valid,           \* every password supplied so far, in both runs, passed validation
    calls,              \* the create calls running concurrently: for each worker
                        \* thread, the call's position and its local variables
    raced               \* whether a call has read the counter, or scanned the emails,
                        \* and acted on it after another call changed what it read

vars == <<_IN_MEMORY_USERS, _NEXT_ID, _ENTITIES, _ENTITIES_NEXT_ID,
          resp, issued, deleted, run2, pw_valid, calls, raced>>

userVars == <<_IN_MEMORY_USERS, _NEXT_ID>>
entityVars == <<_ENTITIES, _ENTITIES_NEXT_ID>>
callVars == <<calls, raced>>

-----------------------------------------------------------------------------
(* Bounds and input domains *)

\* At most this many identifiers are allocated in a run, over both registries.
MaxCreates == 2

\* The identifiers a request may name, given the registry's counter: those
\* issued so far and 0, which is never issued.
Ids(next) == 0 .. (next - 1)

None == <<>>
Some(v) == <<v>>

EmailInputs ==
    { <<"a", "@", "x">>, <<"A", "@", "X">>, <<"b", "@", "x">>, <<"a", "x">> }
NameInputs == { "Ann" }
PasswordInputs == { "secret1", "other12", "abc" }

-----------------------------------------------------------------------------
(* Python dict, insertion ordered *)

DictKeys(d) == { d[i].key : i \in 1 .. Len(d) }

DictHas(d, k) == k \in DictKeys(d)

\* d.get(k): the value under k, or None
DictGet(d, k) ==
    IF DictHas(d, k)
    THEN Some(d[CHOOSE i \in 1 .. Len(d) : d[i].key = k].val)
    ELSE None

\* d[k] = v: an existing key keeps its place, a new key goes last
DictSet(d, k, v) ==
    IF DictHas(d, k)
    THEN [i \in 1 .. Len(d) |-> IF d[i].key = k THEN [key |-> k, val |-> v] ELSE d[i]]
    ELSE Append(d, [key |-> k, val |-> v])

\* del d[k]
DictDel(d, k) ==
    LET keep == { i \in 1 .. Len(d) : d[i].key # k }
        F[i \in 0 .. Len(d)] ==
            IF i = 0 THEN <<>>
            ELSE IF i \in keep THEN Append(F[i - 1], d[i]) ELSE F[i - 1]
    IN F[Len(d)]

-----------------------------------------------------------------------------
(* Responses *)

Response(status, body, detail) == [status |-> status, body |-> body, detail |-> detail]

\* What the framework answers when the request body fails the payload model.
Unprocessable == Response(422, <<>>, "validation error")

\* What the framework answers when a handler raises anything but HTTPException.
ServerError == Response(500, <<>>, "Internal Server Error")

Result(store, next, r) == [store |-> store, next |-> next, resp |-> r]

-----------------------------------------------------------------------------
(* str.lower on the characters the inputs use *)

LowerChar(c) ==
    CASE c = "A" -> "a"
      [] c = "B" -> "b"
      [] c = "X" -> "x"
      [] OTHER -> c

Lower(s) == [i \in 1 .. Len(s) |-> LowerChar(s[i])]

-----------------------------------------------------------------------------
(* users.py *)

\* EmailStr: one "@" with something on both sides.  payload.email is the
\* address as the validation yields it; the handlers never change it.
EmailStr(e) ==
    /\ Cardinality({ i \in 1 .. Len(e) : e[i] = "@" }) = 1
    /\ e[1] # "@"
    /\ e[Len(e)] # "@"

MinPasswordLength == 6

\* class UserCreate: email, full_name = None, password with min_length
UserCreate(body) ==
    /\ EmailStr(body.email)
    /\ Len(body.password) >= MinPasswordLength

\* class UserUpdate: full_name = None, password = None or of min_length
UserUpdate(body) ==
    body.password # None => Len(body.password[1]) >= MinPasswordLength

\* class User: the view returned to clients
User(id, email, full_name) == [id |-> id, email |-> email, full_name |-> full_name]

\* A _get_next_id that forgets the increment
_get_next_id_stuck(next) == [nid |-> next, next |-> next]

\* _get_next_id: the id to use and the counter after the call
_get_next_id(next) == [nid |-> next, next |-> next + 1]

\* A scan that compares the emails as they are written
EmailTaken_exact(users, email) ==
    \E i \in 1 .. Len(users) : users[i].val.email = email

\* The scan of create_user: some stored email equals the new one, both lowered
EmailTaken(users, email) ==
    \E i \in 1 .. Len(users) : Lower(users[i].val.email) = Lower(email)

\* A create_user that takes the id before it looks for the email
create_user_id_first(users, next, payload) ==
    LET g == _get_next_id(next)
        user_id == g.nid
        rec == [id |-> user_id,
                email |-> payload.email,
                full_name |-> payload.full_name,
                password |-> payload.password]
    IN IF EmailTaken(users, payload.email)
       THEN Result(users, g.next, Response(409, <<>>, "Email already registered."))
       ELSE Result(DictSet(users, user_id, rec), g.next,
                   Response(201, <<User(user_id, payload.email, payload.full_name)>>, ""))

\* A create_user that compares the emails as they are, without lower()
create_user_exact(users, next, payload) ==
    IF \E i \in 1 .. Len(users) : users[i].val.email = payload.email
    THEN Result(users, next, Response(409, <<>>, "Email already registered."))
    ELSE LET g == _get_next_id(next)
             user_id == g.nid
             rec == [id |-> user_id,
                     email |-> payload.email,
                     full_name |-> payload.full_name,
                     password |-> payload.password]
         IN Result(DictSet(users, user_id, rec), g.next,
                   Response(201, <<User(user_id, payload.email, payload.full_name)>>, ""))

\* A create_user that numbers the new user by the size of the store
create_user_by_count(users, next, payload) ==
    IF EmailTaken(users, payload.email)
    THEN Result(users, next, Response(409, <<>>, "Email already registered."))
    ELSE LET user_id == Len(users) + 1
             rec == [id |-> user_id,
                     email |-> payload.email,
                     full_name |-> payload.full_name,
                     password |-> payload.password]
         IN Result(DictSet(users, user_id, rec), next + 1,
                   Response(201, <<User(user_id, payload.email, payload.full_name)>>, ""))

create_user(users, next, payload) ==
    IF EmailTaken(users, payload.email)
    THEN Result(users, next, Response(409, <<>>, "Email already registered."))
    ELSE LET g == _get_next_id(next)
             user_id == g.nid
             rec == [id |-> user_id,
                     email |-> payload.email,
                     full_name |-> payload.full_name,
                     password |-> payload.password]
         IN Result(DictSet(users, user_id, rec), g.next,
                   Response(201, <<User(user_id, payload.email, payload.full_name)>>, ""))

list_users(users, next) ==
    Result(users, next,
           Response(200,
                    [i \in 1 .. Len(users) |->
                        User(users[i].val.id, users[i].val.email, users[i].val.full_name)],
                    ""))

\* A get_user that returns the stored record as it is
get_user_raw(users, next, user_id) ==
    LET u == DictGet(users, user_id)
    IN IF u = None
       THEN Result(users, next, Response(404, <<>>, "User not found."))
       ELSE Result(users, next, Response(200, <<u[1]>>, ""))

get_user(users, next, user_id) ==
    LET u == DictGet(users, user_id)
    IN IF u = None
       THEN Result(users, next, Response(404, <<>>, "User not found."))
       ELSE Result(users, next,
                   Response(200, <<User(u[1].id, u[1].email, u[1].full_name)>>, ""))

\* An update_user that assigns both fields whether or not they were given
update_user_overwrite(users, next, user_id, payload) ==
    LET u == DictGet(users, user_id)
    IN IF u = None
       THEN Result(users, next, Response(404, <<>>, "User not found."))
       ELSE LET u1 == [u[1] EXCEPT !.full_name = payload.full_name]
                u2 == IF payload.password # None
                      THEN [u1 EXCEPT !.password = payload.password[1]]
                      ELSE u1
            IN Result(DictSet(users, user_id, u2), next,
                      Response(200, <<User(u2.id, u2.email, u2.full_name)>>, ""))

\* An update_user whose second assignment goes to the first field
update_user_wrong_field(users, next, user_id, payload) ==
    LET u == DictGet(users, user_id)
    IN IF u = None
       THEN Result(users, next, Response(404, <<>>, "User not found."))
       ELSE LET u1 == IF payload.full_name # None
                      THEN [u[1] EXCEPT !.full_name = payload.full_name]
                      ELSE u[1]
                u2 == IF payload.password # None
                      THEN [u1 EXCEPT !.full_name = payload.password]
                      ELSE u1
            IN Result(DictSet(users, user_id, u2), next,
                      Response(200, <<User(u2.id, u2.email, u2.full_name)>>, ""))

update_user(users, next, user_id, payload) ==
    LET u == DictGet(users, user_id)
    IN IF u = None
       THEN Result(users, next, Response(404, <<>>, "User not found."))
       ELSE LET u1 == IF payload.full_name # None
                      THEN [u[1] EXCEPT !.full_name = payload.full_name]
                      ELSE u[1]
                u2 == IF payload.password # None
                      THEN [u1 EXCEPT !.password = payload.password[1]]
                      ELSE u1
            IN Result(DictSet(users, user_id, u2), next,
                      Response(200, <<User(u2.id, u2.email, u2.full_name)>>, ""))

\* A delete_user that answers 204 whether or not the id is stored
delete_user_lenient(users, next, user_id) ==
    Result(DictDel(users, user_id), next, Response(204, <<>>, ""))

delete_user(users, next, user_id) ==
    IF ~DictHas(users, user_id)
    THEN Result(users, next, Response(404, <<>>, "User not found."))
    ELSE Result(DictDel(users, user_id), next, Response(204, <<>>, ""))

\* POST /users: the body is validated against UserCreate before the handler runs
post_users(users, next, body) ==
    IF UserCreate(body) THEN create_user(users, next, body)
    ELSE Result(users, next, Unprocessable)

\* PATCH /users/{user_id}: the body is validated against UserUpdate
patch_users(users, next, user_id, body) ==
    IF UserUpdate(body) THEN update_user(users, next, user_id, body)
    ELSE Result(users, next, Unprocessable)

\* The bodies the claims range over
UserCreateBodies ==
    [email : EmailInputs, full_name : {None} \cup {Some(n) : n \in NameInputs},
     password : PasswordInputs]

UserUpdateBodies ==
    [full_name : {None} \cup {Some(n) : n \in NameInputs},
     password : {None} \cup {Some(p) : p \in PasswordInputs}]

\* The bodies the requests of a run carry: every accepted email and name with
\* one accepted password, and one body for each way of being rejected (the
\* runs of SpecTwoRuns are the ones that vary the passwords)
UserCreateRequests ==
    { b \in UserCreateBodies :
        \/ b.password = "secret1" /\ (EmailStr(b.email) \/ b.full_name = None)
        \/ b.password = "abc" /\ b.email = <<"a", "@", "x">> /\ b.full_name = None }

UserUpdateRequests ==
    { b \in UserUpdateBodies :
        \/ b.password \in {None, Some("secret1")}
        \/ b.password = Some("abc") /\ b.full_name = None }

-----------------------------------------------------------------------------
(* entities.py *)

EmptyMap == [k \in {} |-> 0]

MetadataInputs == { EmptyMap, [a |-> 1], [b |-> 2] }
EntityNameInputs == { "", "Widget" }
DescriptionInputs == { "d" }

MinNameLength == 1

\* class EntityBase: name with min_length, description = None
EntityBase(v) == Len(v.name) >= MinNameLength

\* class EntityCreate(EntityBase): the fields are those of EntityBase
EntityCreate(body) == EntityBase(body)

\* EntityCreate's default_factory: a body without metadata gets the empty dict
\* (a body with "metadata": null keeps None)
EntityCreatePayload(body) ==
    [name |-> body.name,
     description |-> body.description,
     metadata |-> IF body.has_metadata THEN body.metadata ELSE Some(EmptyMap)]

\* class EntityUpdate: name, description and metadata, each None by default,
\* none of them constrained
EntityUpdate(body) == TRUE

\* class Entity(EntityBase): building the returned object validates it
EntityValid(e) == EntityBase(e)

Entity(e) ==
    [id |-> e.id, name |-> e.name, description |-> e.description, metadata |-> e.metadata]

\* _entity_next_id: the id to use and the counter after the call
_entity_next_id(next) == [v |-> next, next |-> next + 1]

\* payload.metadata or {}
MetadataOrEmpty(m) == IF m = None \/ m[1] = EmptyMap THEN EmptyMap ELSE m[1]

create_entity(entities, next, payload) ==
    LET g == _entity_next_id(next)
        eid == g.v
        rec == [id |-> eid,
                name |-> payload.name,
                description |-> payload.description,
                metadata |-> MetadataOrEmpty(payload.metadata)]
        stored == DictSet(entities, eid, rec)
    IN Result(stored, g.next,
              IF EntityValid(rec) THEN Response(201, <<Entity(rec)>>, "")
              ELSE ServerError)

list_entities(entities, next) ==
    Result(entities, next,
           IF \A i \in 1 .. Len(entities) : EntityValid(entities[i].val)
           THEN Response(200, [i \in 1 .. Len(entities) |-> Entity(entities[i].val)], "")
           ELSE ServerError)

get_entity(entities, next, entity_id) ==
    LET e == DictGet(entities, entity_id)
    IN IF e = None
       THEN Result(entities, next, Response(404, <<>>, "Entity not found."))
       ELSE Result(entities, next,
                   IF EntityValid(e[1]) THEN Response(200, <<Entity(e[1])>>, "")
                   ELSE ServerError)

update_entity(entities, next, entity_id, payload) ==
    LET e == DictGet(entities, entity_id)
    IN IF e = None
       THEN Result(entities, next, Response(404, <<>>, "Entity not found."))
       ELSE LET e1 == IF payload.name # None
                      THEN [e[1] EXCEPT !.name = payload.name[1]]
                      ELSE e[1]
                e2 == IF payload.description # None
                      THEN [e1 EXCEPT !.description = payload.description]
                      ELSE e1
                e3 == IF payload.metadata # None
                      THEN [e2 EXCEPT !.metadata = payload.metadata[1]]
                      ELSE e2
            IN Result(DictSet(entities, entity_id, e3), next,
                      IF EntityValid(e3) THEN Response(200, <<Entity(e3)>>, "")
                      ELSE ServerError)

delete_entity(entities, next, entity_id) ==
    IF ~DictHas(entities, entity_id)
    THEN Result(entities, next, Response(404, <<>>, "Entity not found."))
    ELSE Result(DictDel(entities, entity_id), next, Response(204, <<>>, ""))

\* POST /entities: the body is validated against EntityCreate before the handler runs
post_entities(entities, next, body) ==
    IF EntityCreate(body) THEN create_entity(entities, next, EntityCreatePayload(body))
    ELSE Result(entities, next, Unprocessable)

\* PATCH /entities/{entity_id}: the body is validated against EntityUpdate
patch_entities(entities, next, entity_id, body) ==
    IF EntityUpdate(body) THEN update_entity(entities, next, entity_id, body)
    ELSE Result(entities, next, Unprocessable)

OptionalDescriptions == {None} \cup {Some(x) : x \in DescriptionInputs}
OptionalMetadata == {None} \cup {Some(m) : m \in MetadataInputs}

\* The bodies the claims range over; metadata is left out, null or a map
EntityCreateBodies ==
    { b \in [name : EntityNameInputs, description : OptionalDescriptions,
             has_metadata : BOOLEAN, metadata : OptionalMetadata] :
        ~b.has_metadata => b.metadata = None }

EntityUpdateBodies ==
    [name : {None} \cup {Some(n) : n \in EntityNameInputs},
     description : OptionalDescriptions,
     metadata : OptionalMetadata]

\* The bodies the requests of a run carry: a create sets the description or the
\* metadata, an update sets at most one field, or the name and the metadata
EntityCreateRequests ==
    { b \in EntityCreateBodies :
        /\ b.metadata # Some([b |-> 2])
        /\ b.description = None \/ ~b.has_metadata
        /\ EntityCreate(b) \/ (b.description = None /\ ~b.has_metadata) }

EntityUpdateRequests ==
    { b \in EntityUpdateBodies :
        /\ b.metadata # Some([a |-> 1])
        /\ \/ Cardinality({ f \in DOMAIN b : b[f] # None }) <= 1
           \/ b = [name |-> Some(""), description |-> None, metadata |-> Some([b |-> 2])] }

-----------------------------------------------------------------------------
(* health.py *)

health_check ==
    Response(200,
             <<[status |-> "ok",
                service |-> "Ocean Professional API",
                version |-> "0.1.0",
                theme_primary |-> "#2563EB",
                theme_secondary |-> "#F59E0B"]>>,
             "")

-----------------------------------------------------------------------------
(* The state machine: one request per step *)

\* Whether a PATCH body leaves every optional field out
Bare(body) == \A f \in DOMAIN body : body[f] = None

\* What is recorded of a request: the registry, the operation, the status
\* answered, and for an update whether its body was bare
Answer(reg, op, status, bare) == [reg |-> reg, op |-> op, status |-> status, bare |-> bare]

NoAnswer == Answer("none", "none", 0, FALSE)

NoResponse == Response(0, <<>>, "")

\* The worker threads that run the handlers of concurrent requests
Threads == { "t1", "t2" }

\* A thread that runs no call
NoCall == [reg |-> "none", pc |-> "idle", payload |-> <<>>, nid |-> 0, loaded |-> 0,
           stale |-> FALSE]

Init ==
    /\ _IN_MEMORY_USERS = <<>>
    /\ _NEXT_ID = 1
    /\ _ENTITIES = <<>>
    /\ _ENTITIES_NEXT_ID = 1
    /\ resp = NoAnswer
    /\ issued = [users |-> <<>>, entities |-> <<>>]
    /\ deleted = [users |-> {}, entities |-> {}]
    /\ run2 = [store |-> <<>>, next |-> 1, resp1 |-> NoResponse, resp2 |-> NoResponse]
    /\ pw_valid = TRUE
    /\ calls = [t \in Threads |-> NoCall]
    /\ raced = [id |-> FALSE, email |-> FALSE]

\* The identifiers allocated so far, over both registries
Allocated == (_NEXT_ID - 1) + (_ENTITIES_NEXT_ID - 1)

\* A step that allocates an identifier is taken only below the bound
MayAllocate(before, after) == after = before \/ Allocated < MaxCreates

\* A user step whose identifiers come from a counter shared with the entities
UserStep_shared_counter(op, id, bare, r) ==
    /\ MayAllocate(_NEXT_ID, r.next)
    /\ _IN_MEMORY_USERS' = r.store
    /\ _NEXT_ID' = r.next
    /\ _ENTITIES_NEXT_ID' = _ENTITIES_NEXT_ID + (r.next - _NEXT_ID)
    /\ resp' = Answer("users", op, r.resp.status, bare)
    /\ issued' = IF op = "create" /\ r.resp.status = 201
                 THEN [issued EXCEPT !.users = Append(@, r.resp.body[1].id)]
                 ELSE issued
    /\ deleted' = IF op = "delete" /\ r.resp.status = 204
                  THEN [deleted EXCEPT !.users = @ \cup {id}]
                  ELSE deleted
    /\ UNCHANGED <<_ENTITIES, callVars>>

UserStep(op, id, bare, r) ==
    /\ MayAllocate(_NEXT_ID, r.next)
    /\ _IN_MEMORY_USERS' = r.store
    /\ _NEXT_ID' = r.next
    /\ resp' = Answer("users", op, r.resp.status, bare)
    /\ issued' = IF op = "create" /\ r.resp.status = 201
                 THEN [issued EXCEPT !.users = Append(@, r.resp.body[1].id)]
                 ELSE issued
    /\ deleted' = IF op = "delete" /\ r.resp.status = 204
                  THEN [deleted EXCEPT !.users = @ \cup {id}]
                  ELSE deleted
    /\ UNCHANGED <<entityVars, callVars>>

EntityStep(op, id, bare, r) ==
    /\ MayAllocate(_ENTITIES_NEXT_ID, r.next)
    /\ _ENTITIES' = r.store
    /\ _ENTITIES_NEXT_ID' = r.next
    /\ resp' = Answer("entities", op, r.resp.status, bare)
    /\ issued' = IF op = "create" /\ r.resp.status = 201
                 THEN [issued EXCEPT !.entities = Append(@, r.resp.body[1].id)]
                 ELSE issued
    /\ deleted' = IF op = "delete" /\ r.resp.status = 204
                  THEN [deleted EXCEPT !.entities = @ \cup {id}]
                  ELSE deleted
    /\ UNCHANGED <<userVars, callVars>>

OneRun == UNCHANGED <<run2, pw_valid>>

CreateUser ==
    \E body \in UserCreateRequests :
        UserStep("create", 0, FALSE, post_users(_IN_MEMORY_USERS, _NEXT_ID, body)) /\ OneRun

ListUsers == UserStep("list", 0, FALSE, list_users(_IN_MEMORY_USERS, _NEXT_ID)) /\ OneRun

GetUser ==
    \E id \in Ids(_NEXT_ID) :
        UserStep("get", id, FALSE, get_user(_IN_MEMORY_USERS, _NEXT_ID, id)) /\ OneRun

UpdateUser ==
    \E id \in Ids(_NEXT_ID), body \in UserUpdateRequests :
        UserStep("update", id, Bare(body), patch_users(_IN_MEMORY_USERS, _NEXT_ID, id, body))
        /\ OneRun

DeleteUser ==
    \E id \in Ids(_NEXT_ID) :
        UserStep("delete", id, FALSE, delete_user(_IN_MEMORY_USERS, _NEXT_ID, id)) /\ OneRun

CreateEntity ==
    \E body \in EntityCreateRequests :
        EntityStep("create", 0, FALSE, post_entities(_ENTITIES, _ENTITIES_NEXT_ID, body))
        /\ OneRun

ListEntities ==
    EntityStep("list", 0, FALSE, list_entities(_ENTITIES, _ENTITIES_NEXT_ID)) /\ OneRun

GetEntity ==
    \E id \in Ids(_ENTITIES_NEXT_ID) :
        EntityStep("get", id, FALSE, get_entity(_ENTITIES, _ENTITIES_NEXT_ID, id)) /\ OneRun

UpdateEntity ==
    \E id \in Ids(_ENTITIES_NEXT_ID), body \in EntityUpdateRequests :
        EntityStep("update", id, Bare(body),
                   patch_entities(_ENTITIES, _ENTITIES_NEXT_ID, id, body))
        /\ OneRun

DeleteEntity ==
    \E id \in Ids(_ENTITIES_NEXT_ID) :
        EntityStep("delete", id, FALSE, delete_entity(_ENTITIES, _ENTITIES_NEXT_ID, id))
        /\ OneRun

Health ==
    /\ resp' = Answer("health", "check", health_check.status, FALSE)
    /\ UNCHANGED <<userVars, entityVars, issued, deleted, run2, pw_valid, callVars>>

Next ==
    \/ CreateUser
    \/ ListUsers
    \/ GetUser
    \/ UpdateUser
    \/ DeleteUser
    \/ CreateEntity
    \/ ListEntities
    \/ GetEntity
    \/ UpdateEntity
    \/ DeleteEntity
    \/ Health

Spec == Init /\ [][Next]_vars

-----------------------------------------------------------------------------
(* Two runs of the user registry on the same requests, the passwords apart *)

\* The second run takes its step on its own store and counter; both full
\* responses of the step are kept side by side.  The two runs are followed up
\* to the first step that supplies a password the validation rejects.
SecondRun(r1, r2) ==
    /\ pw_valid
    /\ r2.next = run2.next \/ run2.next - 1 < MaxCreates
    /\ run2' = [store |-> r2.store, next |-> r2.next, resp1 |-> r1.resp, resp2 |-> r2.resp]

Accepted(password) == Len(password) >= MinPasswordLength

\* The bodies the requests of the two runs carry: any password, in a create
\* with one of two emails, or in an update of the password alone
TwoRunCreates == { b \in UserCreateBodies : b.email \in { <<"a", "@", "x">>, <<"b", "@", "x">> } }
TwoRunUpdates == { b \in UserUpdateBodies : b.full_name = None }

TwoCreateUser ==
    \E body \in TwoRunCreates, pw2 \in PasswordInputs :
        /\ UserStep("create", 0, FALSE, post_users(_IN_MEMORY_USERS, _NEXT_ID, body))
        /\ SecondRun(post_users(_IN_MEMORY_USERS, _NEXT_ID, body),
                     post_users(run2.store, run2.next, [body EXCEPT !.password = pw2]))
        /\ pw_valid' = (pw_valid /\ Accepted(body.password) /\ Accepted(pw2))

TwoListUsers ==
    /\ UserStep("list", 0, FALSE, list_users(_IN_MEMORY_USERS, _NEXT_ID))
    /\ SecondRun(list_users(_IN_MEMORY_USERS, _NEXT_ID), list_users(run2.store, run2.next))
    /\ UNCHANGED pw_valid

TwoGetUser ==
    \E id \in Ids(_NEXT_ID) \cup Ids(run2.next) :
        /\ UserStep("get", id, FALSE, get_user(_IN_MEMORY_USERS, _NEXT_ID, id))
        /\ SecondRun(get_user(_IN_MEMORY_USERS, _NEXT_ID, id),
                     get_user(run2.store, run2.next, id))
        /\ UNCHANGED pw_valid

TwoUpdateUser ==
    \E id \in Ids(_NEXT_ID) \cup Ids(run2.next), body \in TwoRunUpdates,
       pw2 \in PasswordInputs :
        LET body2 == IF body.password = None THEN body ELSE [body EXCEPT !.password = Some(pw2)]
        IN /\ UserStep("update", id, Bare(body),
                       patch_users(_IN_MEMORY_USERS, _NEXT_ID, id, body))
           /\ SecondRun(patch_users(_IN_MEMORY_USERS, _NEXT_ID, id, body),
                        patch_users(run2.store, run2.next, id, body2))
           /\ pw_valid' = (pw_valid /\ (body.password # None =>
                                          Accepted(body.password[1]) /\ Accepted(pw2)))

TwoDeleteUser ==
    \E id \in Ids(_NEXT_ID) \cup Ids(run2.next) :
        /\ UserStep("delete", id, FALSE, delete_user(_IN_MEMORY_USERS, _NEXT_ID, id))
        /\ SecondRun(delete_user(_IN_MEMORY_USERS, _NEXT_ID, id),
                     delete_user(run2.store, run2.next, id))
        /\ UNCHANGED pw_valid

NextTwoRuns ==
    \/ TwoCreateUser
    \/ TwoListUsers
    \/ TwoGetUser
    \/ TwoUpdateUser
    \/ TwoDeleteUser

SpecTwoRuns == Init /\ [][NextTwoRuns]_vars

-----------------------------------------------------------------------------
(* Concurrent creates: the handlers run in worker threads, statement by     *)
(* statement, and the statements of two calls interleave                    *)

\* The payloads of the concurrent calls, all accepted by the validation
ConcurrentUserCreates ==
    { b \in UserCreateBodies :
        /\ b.email \in { <<"a", "@", "x">>, <<"A", "@", "X">> }
        /\ b.full_name = None
        /\ b.password = "secret1" }

ConcurrentEntityCreates ==
    { EntityCreatePayload([name |-> "Widget", description |-> None,
                           has_metadata |-> FALSE, metadata |-> None]) }

\* The calls in progress
InFlight == Cardinality({ t \in Threads : calls[t].pc # "idle" })

\* The statements of a call between its reading of the counter and its
\* writing of the incremented counter
Incrementing == { "load", "store" }

\* The statements of create_user after the scan of the emails
Scanned == { "read", "load", "store", "insert" }

\* A store that appends the record whatever the keys already present
store_user_append(users, user_id, payload) ==
    Append(users, [key |-> user_id,
                   val |-> [id |-> user_id,
                            email |-> payload.email,
                            full_name |-> payload.full_name,
                            password |-> payload.password]])

\* _IN_MEMORY_USERS[user_id] = {...}
store_user(users, user_id, payload) ==
    DictSet(users, user_id, [id |-> user_id,
                             email |-> payload.email,
                             full_name |-> payload.full_name,
                             password |-> payload.password])

\* A store that appends the record whatever the keys already present
store_entity_append(entities, eid, payload) ==
    Append(entities, [key |-> eid,
                      val |-> [id |-> eid,
                               name |-> payload.name,
                               description |-> payload.description,
                               metadata |-> MetadataOrEmpty(payload.metadata)]])

\* _ENTITIES[eid] = {...}
store_entity(entities, eid, payload) ==
    DictSet(entities, eid, [id |-> eid,
                            name |-> payload.name,
                            description |-> payload.description,
                            metadata |-> MetadataOrEmpty(payload.metadata)])

\* A thread picks up a request when it is idle, below the bound on the
\* identifiers allocated and being allocated
Begin(t, reg, pc, payload) ==
    /\ calls[t].pc = "idle"
    /\ Allocated + InFlight < MaxCreates
    /\ calls' = [calls EXCEPT ![t] = [NoCall EXCEPT !.reg = reg, !.pc = pc,
                                                    !.payload = payload]]

\* The thread t is at the statement pc of a create of the registry reg
At(t, reg, pc) == calls[t].reg = reg /\ calls[t].pc = pc

\* nid = <counter>: a read while another call of the registry is between its
\* own read and its write of the counter is a race on the counter
ReadCounter(t, reg, counter) ==
    /\ At(t, reg, "read")
    /\ calls' = [calls EXCEPT ![t].nid = counter, ![t].pc = "load"]
    /\ raced' = [raced EXCEPT !.id =
                    @ \/ \E q \in Threads \ {t} :
                            calls[q].reg = reg /\ calls[q].pc \in Incrementing]

\* <counter> += 1, the load of the counter
LoadCounter(t, reg, counter) ==
    /\ At(t, reg, "load")
    /\ calls' = [calls EXCEPT ![t].loaded = counter, ![t].pc = "store"]

\* The calls left after the thread t has inserted its record and returned: the
\* other calls of the registry that have scanned the store hold a stale scan
AfterInsert(t, reg) ==
    [q \in Threads |->
        IF q = t THEN NoCall
        ELSE IF calls[q].reg = reg /\ calls[q].pc \in Scanned
             THEN [calls[q] EXCEPT !.stale = TRUE]
             ELSE calls[q]]

BeginCreateUser ==
    \E t \in Threads, payload \in ConcurrentUserCreates :
        /\ Begin(t, "users", "scan", payload)
        /\ UNCHANGED <<userVars, entityVars, resp, issued, deleted, run2, pw_valid, raced>>

\* for u in _IN_MEMORY_USERS.values(): if ... raise HTTPException(409)
ScanEmails ==
    \E t \in Threads :
        /\ At(t, "users", "scan")
        /\ IF EmailTaken(_IN_MEMORY_USERS, calls[t].payload.email)
           THEN /\ calls' = [calls EXCEPT ![t] = NoCall]
                /\ resp' = Answer("users", "create", 409, FALSE)
           ELSE /\ calls' = [calls EXCEPT ![t].pc = "read"]
                /\ UNCHANGED resp
        /\ UNCHANGED <<userVars, entityVars, issued, deleted, run2, pw_valid, raced>>

ReadNextId ==
    \E t \in Threads :
        /\ ReadCounter(t, "users", _NEXT_ID)
        /\ UNCHANGED <<userVars, entityVars, resp, issued, deleted, run2, pw_valid>>

LoadNextId ==
    \E t \in Threads :
        /\ LoadCounter(t, "users", _NEXT_ID)
        /\ UNCHANGED <<userVars, entityVars, resp, issued, deleted, run2, pw_valid, raced>>

StoreNextId ==
    \E t \in Threads :
        /\ At(t, "users", "store")
        /\ _NEXT_ID' = calls[t].loaded + 1
        /\ calls' = [calls EXCEPT ![t].pc = "insert"]
        /\ UNCHANGED <<_IN_MEMORY_USERS, entityVars, resp, issued, deleted, run2,
                       pw_valid, raced>>

InsertUser ==
    \E t \in Threads :
        /\ At(t, "users", "insert")
        /\ _IN_MEMORY_USERS' = store_user(_IN_MEMORY_USERS, calls[t].nid, calls[t].payload)
        /\ resp' = Answer("users", "create", 201, FALSE)
        /\ issued' = [issued EXCEPT !.users = Append(@, calls[t].nid)]
        /\ calls' = AfterInsert(t, "users")
        /\ raced' = [raced EXCEPT !.email = @ \/ calls[t].stale]
        /\ UNCHANGED <<_NEXT_ID, entityVars, deleted, run2, pw_valid>>

BeginCreateEntity ==
    \E t \in Threads, payload \in ConcurrentEntityCreates :
        /\ Begin(t, "entities", "read", payload)
        /\ UNCHANGED <<userVars, entityVars, resp, issued, deleted, run2, pw_valid, raced>>

ReadEntityNextId ==
    \E t \in Threads :
        /\ ReadCounter(t, "entities", _ENTITIES_NEXT_ID)
        /\ UNCHANGED <<userVars, entityVars, resp, issued, deleted, run2, pw_valid>>

LoadEntityNextId ==
    \E t \in Threads :
        /\ LoadCounter(t, "entities", _ENTITIES_NEXT_ID)
        /\ UNCHANGED <<userVars, entityVars, resp, issued, deleted, run2, pw_valid, raced>>

StoreEntityNextId ==
    \E t \in Threads :
        /\ At(t, "entities", "store")
        /\ _ENTITIES_NEXT_ID' = calls[t].loaded + 1
        /\ calls' = [calls EXCEPT ![t].pc = "insert"]
        /\ UNCHANGED <<_ENTITIES, userVars, resp, issued, deleted, run2, pw_valid, raced>>

InsertEntity ==
    \E t \in Threads :
        /\ At(t, "entities", "insert")
        /\ _ENTITIES' = store_entity(_ENTITIES, calls[t].nid, calls[t].payload)
        /\ resp' = Answer("entities", "create", 201, FALSE)
        /\ issued' = [issued EXCEPT !.entities = Append(@, calls[t].nid)]
        /\ calls' = AfterInsert(t, "entities")
        /\ UNCHANGED <<_ENTITIES_NEXT_ID, userVars, deleted, run2, pw_valid, raced>>

NextConcurrent ==
    \/ BeginCreateUser
    \/ ScanEmails
    \/ ReadNextId
    \/ LoadNextId
    \/ StoreNextId
    \/ InsertUser
    \/ BeginCreateEntity
    \/ ReadEntityNextId
    \/ LoadEntityNextId
    \/ StoreEntityNextId
    \/ InsertEntity

SpecConcurrent == Init /\ [][NextConcurrent]_vars

-----------------------------------------------------------------------------
(* What the claims speak of *)

\* The identifiers a claim ranges over: never issued, issued, not yet issued
ClaimIds == 0 .. (MaxCreates + 1)

\* Two characters that differ at most in case
SameLetter(c, d) ==
    \/ c = d
    \/ {c, d} \in { {"a", "A"}, {"b", "B"}, {"x", "X"} }

\* Two emails that are equal when compared case-insensitively
SameEmail(e, f) ==
    /\ Len(e) = Len(f)
    /\ \A i \in 1 .. Len(e) : SameLetter(e[i], f[i])

ValidUserCreates == { b \in UserCreateBodies : UserCreate(b) }
ValidUserUpdates == { b \in UserUpdateBodies : UserUpdate(b) }
ValidEntityCreates == { EntityCreatePayload(b) : b \in { c \in EntityCreateBodies : EntityCreate(c) } }
ValidEntityUpdates == { b \in EntityUpdateBodies : EntityUpdate(b) }

\* The ids a successful create would return in the current state
NextUserIds ==
    { r.resp.body[1].id :
        r \in { q \in { create_user(_IN_MEMORY_USERS, _NEXT_ID, b) : b \in ValidUserCreates } :
                  q.resp.status = 201 } }

NextEntityIds ==
    { r.resp.body[1].id :
        r \in { q \in { create_entity(_ENTITIES, _ENTITIES_NEXT_ID, b) : b \in ValidEntityCreates } :
                  q.resp.status = 201 } }

Increasing(seq) == \A i, j \in 1 .. Len(seq) : i < j => seq[i] < seq[j]

Range(seq) == { seq[i] : i \in 1 .. Len(seq) }

\* C1: in each registry the ids returned by successful creates are strictly
\* increasing in the order of the calls (so all different), and the id any
\* further successful create returns is greater than all of them.
C1_CreatedIdsIncrease ==
    /\ Increasing(issued.users)
    /\ Increasing(issued.entities)
    /\ \A n \in NextUserIds : \A m \in Range(issued.users) : m < n
    /\ \A n \in NextEntityIds : \A m \in Range(issued.entities) : m < n

\* Two creates of users have succeeded, with a delete between them
C1_Witness ==
    /\ Len(issued.users) >= 2
    /\ deleted.users # {}
    /\ resp = Answer("users", "create", 201, FALSE)

\* C2: create_user with an email that equals a stored user's email up to case
\* answers 409 and leaves the store and the counter as they were.
C2_DuplicateEmailConflict ==
    \A b \in ValidUserCreates :
        (\E i \in 1 .. Len(_IN_MEMORY_USERS) : SameEmail(_IN_MEMORY_USERS[i].val.email, b.email))
        => LET r == create_user(_IN_MEMORY_USERS, _NEXT_ID, b)
           IN /\ r.resp.status = 409
              /\ r.store = _IN_MEMORY_USERS
              /\ r.next = _NEXT_ID

\* A create has just been refused with 409
C2_Witness ==
    /\ resp = Answer("users", "create", 409, FALSE)
    /\ Len(_IN_MEMORY_USERS) >= 1

\* C3: no two stored users have emails that are equal up to case.
C3_EmailsUnique ==
    \A i, j \in 1 .. Len(_IN_MEMORY_USERS) :
        i # j => ~SameEmail(_IN_MEMORY_USERS[i].val.email, _IN_MEMORY_USERS[j].val.email)

\* Two users are stored, and an update has just been applied
C3_Witness ==
    /\ Len(_IN_MEMORY_USERS) >= 2
    /\ resp = Answer("users", "update", 200, FALSE)

Unchanged404(r, store, next) ==
    LET got == r
    IN /\ got.resp.status = 404
       /\ got.store = store
       /\ got.next = next

\* C4: in both registries get, update and delete of an id that is not stored
\* answer 404 and leave the store and the counter as they were.
C4_MissingIdNotFound ==
    /\ \A id \in ClaimIds \ DictKeys(_IN_MEMORY_USERS) :
        /\ Unchanged404(get_user(_IN_MEMORY_USERS, _NEXT_ID, id), _IN_MEMORY_USERS, _NEXT_ID)
        /\ Unchanged404(delete_user(_IN_MEMORY_USERS, _NEXT_ID, id), _IN_MEMORY_USERS, _NEXT_ID)
        /\ \A b \in ValidUserUpdates :
             Unchanged404(update_user(_IN_MEMORY_USERS, _NEXT_ID, id, b),
                          _IN_MEMORY_USERS, _NEXT_ID)
    /\ \A id \in ClaimIds \ DictKeys(_ENTITIES) :
        /\ Unchanged404(get_entity(_ENTITIES, _ENTITIES_NEXT_ID, id), _ENTITIES, _ENTITIES_NEXT_ID)
        /\ Unchanged404(delete_entity(_ENTITIES, _ENTITIES_NEXT_ID, id),
                        _ENTITIES, _ENTITIES_NEXT_ID)
        /\ \A b \in ValidEntityUpdates :
             Unchanged404(update_entity(_ENTITIES, _ENTITIES_NEXT_ID, id, b),
                          _ENTITIES, _ENTITIES_NEXT_ID)

\* A delete of an id that was issued and deleted before has just answered 404
C4_Witness ==
    /\ resp = Answer("users", "delete", 404, FALSE)
    /\ deleted.users # {}
    /\ Len(_IN_MEMORY_USERS) >= 1

BodyIds(r) == { r.resp.body[i].id : i \in 1 .. Len(r.resp.body) }

\* C5: in both registries an id whose delete succeeded is in no later list,
\* every later get of it answers 404, and no later create returns it.
C5_DeletedIdsGone ==
    /\ \A id \in deleted.users :
        /\ id \notin BodyIds(list_users(_IN_MEMORY_USERS, _NEXT_ID))
        /\ get_user(_IN_MEMORY_USERS, _NEXT_ID, id).resp.status = 404
        /\ id \notin NextUserIds
    /\ \A id \in deleted.entities :
        /\ id \notin BodyIds(list_entities(_ENTITIES, _ENTITIES_NEXT_ID))
        /\ get_entity(_ENTITIES, _ENTITIES_NEXT_ID, id).resp.status = 404
        /\ id \notin NextEntityIds

\* A user was deleted and a later create has succeeded
C5_Witness ==
    /\ deleted.users # {}
    /\ resp = Answer("users", "create", 201, FALSE)
    /\ Len(_IN_MEMORY_USERS) >= 1

\* C6: update_entity of a stored entity with a metadata map given (the empty
\* map too) stores that map and returns it, and keeps the name and the
\* description that the body leaves out.
C6_MetadataReplaced ==
    \A id \in DictKeys(_ENTITIES) :
        \A b \in { c \in ValidEntityUpdates : c.metadata # None } :
            LET old == DictGet(_ENTITIES, id)[1]
                r == update_entity(_ENTITIES, _ENTITIES_NEXT_ID, id, b)
                new == DictGet(r.store, id)[1]
            IN /\ new.metadata = b.metadata[1]
               /\ r.resp.status = 200
               /\ Len(r.resp.body) = 1
               /\ r.resp.body[1].metadata = b.metadata[1]
               /\ b.name = None => new.name = old.name
               /\ b.description = None => new.description = old.description

C8_NamesNonEmpty ==
    \A i \in 1 .. Len(_ENTITIES) : _ENTITIES[i].val.name # ""

Others(store, id) == [i \in 1 .. Len(store) |-> IF store[i].key = id THEN None ELSE Some(store[i])]

\* C9: update_user of a stored user sets the full name and the password that
\* the body gives, keeps those it leaves out, keeps the user's id and email,
\* every other user and the counter.
C9_UpdateUserFrame ==
    \A id \in DictKeys(_IN_MEMORY_USERS) :
        \A b \in ValidUserUpdates :
            LET old == DictGet(_IN_MEMORY_USERS, id)[1]
                r == update_user(_IN_MEMORY_USERS, _NEXT_ID, id, b)
                new == DictGet(r.store, id)[1]
            IN /\ r.next = _NEXT_ID
               /\ Others(r.store, id) = Others(_IN_MEMORY_USERS, id)
               /\ DictHas(r.store, id)
               /\ new.id = old.id
               /\ new.email = old.email
               /\ new.full_name = (IF b.full_name = None THEN old.full_name ELSE b.full_name)
               /\ new.password = (IF b.password = None THEN old.password ELSE b.password[1])
               /\ DOMAIN new = DOMAIN old

\* Two users are stored, one with a full name and one without, and an update
\* that gives a field has just answered 200
C9_Witness ==
    /\ resp = Answer("users", "update", 200, FALSE)
    /\ Len(_IN_MEMORY_USERS) >= 2
    /\ \E i, j \in 1 .. Len(_IN_MEMORY_USERS) :
        /\ _IN_MEMORY_USERS[i].val.full_name # None
        /\ _IN_MEMORY_USERS[j].val.full_name = None

\* The objects of a response are user views: id, email and full name only
ViewsOnly(r) == \A i \in 1 .. Len(r.body) : DOMAIN r.body[i] = {"id", "email", "full_name"}

\* C10 (as claimed): every object a user operation returns holds id, email and
\* full name only, and two runs of the same requests that differ only in the
\* passwords supplied get the same response at every step.
C10_PasswordsNeverShow ==
    /\ ViewsOnly(run2.resp1)
    /\ ViewsOnly(run2.resp2)
    /\ run2.resp1 = run2.resp2

\* C10 (amended): every object a user operation returns holds id, email and
\* full name only, and two runs of the same requests that differ only in the
\* passwords supplied get the same response at every step as long as every
\* password supplied, in either run, is one the request validation accepts.
C10_AcceptedPasswordsNeverShow ==
    /\ ViewsOnly(run2.resp1)
    /\ ViewsOnly(run2.resp2)
    /\ pw_valid => run2.resp1 = run2.resp2

\* The two runs store different passwords for a user and a get of that user
\* has just answered 200 in both
C10_Witness ==
    /\ pw_valid
    /\ resp = Answer("users", "get", 200, FALSE)
    /\ Len(run2.resp1.body) = 1
    /\ \E i \in 1 .. Len(_IN_MEMORY_USERS) :
        /\ _IN_MEMORY_USERS[i].val.id = run2.resp1.body[1].id
        /\ i <= Len(run2.store)
        /\ run2.store[i].val.password # _IN_MEMORY_USERS[i].val.password

\* Whether an identifier occurs twice among those returned by the creates
IssuedTwice(seq) == \E i, j \in 1 .. Len(seq) : i # j /\ seq[i] = seq[j]

\* C11: when the statements of concurrent creates on a registry interleave
\* (read the counter, write the incremented counter, insert the record), the
\* registry holds one record per distinct identifier issued, so two creates
\* that were issued the same identifier leave one record; and an identifier is
\* issued twice only after a call read the counter while another call was
\* between its read and its write of the counter.
C11_OneRecordPerIssuedId ==
    /\ Len(_ENTITIES) = Cardinality(Range(issued.entities))
    /\ Len(_IN_MEMORY_USERS) = Cardinality(Range(issued.users))
    /\ DictKeys(_ENTITIES) = Range(issued.entities)
    /\ DictKeys(_IN_MEMORY_USERS) = Range(issued.users)
    /\ (IssuedTwice(issued.entities) \/ IssuedTwice(issued.users)) => raced.id

\* Two concurrent creates of entities have both returned the identifier 1 and
\* the registry holds one record
C11_Witness ==
    /\ issued.entities = <<1, 1>>
    /\ Len(_ENTITIES) = 1
    /\ InFlight = 0
    /\ raced.id

\* Two stored users whose emails are equal up to case
DuplicateEmails(users) ==
    \E i, j \in 1 .. Len(users) :
        i # j /\ SameEmail(users[i].val.email, users[j].val.email)

\* C14: the uniqueness of the emails holds as long as no create_user inserts
\* its record after another call has inserted one since its scan; when two
\* calls with emails equal up to case both scan before either inserts, both
\* succeed and the registry holds two users with emails equal up to case.
C14_DuplicatesOnlyAfterStaleScan ==
    /\ DuplicateEmails(_IN_MEMORY_USERS) => raced.email
    /\ (resp.reg = "users" /\ resp.status = 409) => _IN_MEMORY_USERS # <<>>

\* Both calls have answered 201 and the registry holds two users, under two
\* identifiers, whose emails are equal up to case
C14_Witness ==
    /\ Len(issued.users) = 2
    /\ Len(_IN_MEMORY_USERS) = 2
    /\ DuplicateEmails(_IN_MEMORY_USERS)
    /\ InFlight = 0

\* The payload of the health report
HealthPayload ==
    [status |-> "ok", service |-> "Ocean Professional API", version |-> "0.1.0",
     theme_primary |-> "#2563EB", theme_secondary |-> "#F59E0B"]

\* C12: every user operation, answered with success or with an error, leaves
\* the entity map and the entity counter unchanged; every entity operation
\* leaves the user map and the user counter unchanged; the health report
\* changes neither registry and answers 200 with the same payload whatever
\* the state.
C12_RegistriesApart ==
    [][ /\ resp'.reg = "users" => UNCHANGED entityVars
        /\ resp'.reg = "entities" => UNCHANGED userVars
        /\ resp'.reg = "health" =>
              /\ UNCHANGED <<userVars, entityVars>>
              /\ resp'.status = 200
              /\ health_check = Response(200, <<HealthPayload>>, "") ]_vars

\* A create_user was rejected with 409 while the entity registry held a record
C12_Witness ==
    /\ resp.reg = "users"
    /\ resp.op = "create"
    /\ resp.status = 409
    /\ Len(_ENTITIES) = 1
    /\ _ENTITIES_NEXT_ID = 2

\* The sequence 1, 2, ..., n
FirstIds(n) == [i \in 1 .. n |-> i]

\* C13: with the operations executed one at a time, in each registry the
\* n-th successful create since the start returned the id n, whatever deletes,
\* updates and failed operations came in between, and the counter is the
\* number of successful creates plus one: a create_user rejected with 409
\* (or with 422) has consumed no identifier.
C13_IdsSequential ==
    /\ issued.users = FirstIds(Len(issued.users))
    /\ _NEXT_ID = Len(issued.users) + 1
    /\ issued.entities = FirstIds(Len(issued.entities))
    /\ _ENTITIES_NEXT_ID = Len(issued.entities) + 1
    /\ \A body \in UserCreateBodies :
          LET r == post_users(_IN_MEMORY_USERS, _NEXT_ID, body)
          IN IF r.resp.status = 201
             THEN r.resp.body[1].id = Len(issued.users) + 1
             ELSE r.next = _NEXT_ID
    /\ \A body \in EntityCreateBodies :
          LET r == post_entities(_ENTITIES, _ENTITIES_NEXT_ID, body)
          IN r.resp.status = 201 => r.resp.body[1].id = Len(issued.entities) + 1

\* The second successful create_user returned 2 after the first user was
\* deleted, and a create_user of the stored email is rejected with 409
C13_Witness ==
    /\ issued.users = <<1, 2>>
    /\ deleted.users = {1}
    /\ resp = Answer("users", "create", 201, FALSE)
    /\ \E body \in UserCreateBodies :
          post_users(_IN_MEMORY_USERS, _NEXT_ID, body).resp.status = 409

\* C15: create_entity with the metadata left out, or given as null, stores and
\* returns an entity whose metadata is the empty mapping; and for every
\* accepted payload the record create_entity returns is the record a get_entity
\* of the returned id returns right after, and is one of the records
\* list_entities returns right after.
C15_CreateEntityReadBack ==
    \A body \in { b \in EntityCreateBodies : EntityCreate(b) } :
        LET r == post_entities(_ENTITIES, _ENTITIES_NEXT_ID, body)
            rec == r.resp.body[1]
            got == get_entity(r.store, r.next, rec.id)
            all == list_entities(r.store, r.next)
        IN /\ r.resp.status = 201
           /\ (~body.has_metadata \/ body.metadata = None) =>
                 /\ rec.metadata = EmptyMap
                 /\ DictGet(r.store, rec.id) # None
                 /\ DictGet(r.store, rec.id)[1].metadata = EmptyMap
           /\ got.resp.status = 200
           /\ got.resp.body = <<rec>>
           /\ all.resp.status = 200
           /\ \E i \in 1 .. Len(all.resp.body) : all.resp.body[i] = rec

\* The stored entries, or the listed records, other than the one of this id
WithoutKey(store, id) ==
    LET Keep(e) == e.key # id IN SelectSeq(store, Keep)

WithoutId(records, id) ==
    LET Keep(v) == v.id # id IN SelectSeq(records, Keep)

\* What a successful delete of the id leaves: r is the delete's result, before
\* and after are the results of the list just before and just after it
RemovesExactlyOne(store, next, id, r, before, after) ==
    r.resp.status = 204 =>
        /\ DictHas(store, id)
        /\ r.store = WithoutKey(store, id)
        /\ Len(r.store) = Len(store) - 1
        /\ r.next = next
        /\ before.resp.status = 200
        /\ after.resp = Response(200, WithoutId(before.resp.body, id), "")
        /\ Len(after.resp.body) = Len(r.store)

\* C16: in both registries a successful delete of an id removes the record of
\* that id and nothing else: every other stored record is kept as it was, in
\* its place, the counter is kept, and the list right after is the list right
\* before without that record, in the same order.
C16_DeleteRemovesExactlyOne ==
    /\ \A id \in ClaimIds :
          RemovesExactlyOne(_IN_MEMORY_USERS, _NEXT_ID, id,
                            delete_user(_IN_MEMORY_USERS, _NEXT_ID, id),
                            list_users(_IN_MEMORY_USERS, _NEXT_ID),
                            list_users(delete_user(_IN_MEMORY_USERS, _NEXT_ID, id).store, _NEXT_ID))
    /\ \A id \in ClaimIds :
          RemovesExactlyOne(_ENTITIES, _ENTITIES_NEXT_ID, id,
                            delete_entity(_ENTITIES, _ENTITIES_NEXT_ID, id),
                            list_entities(_ENTITIES, _ENTITIES_NEXT_ID),
                            list_entities(delete_entity(_ENTITIES, _ENTITIES_NEXT_ID, id).store,
                                          _ENTITIES_NEXT_ID))

\* Every entry of the store is kept under its record's id, a key from 1 up to
\* the counter, the counter left out
KeysInRange(store, next) ==
    \A i \in 1 .. Len(store) :
        /\ store[i].val.id = store[i].key
        /\ store[i].key >= 1
        /\ store[i].key < next

\* C17: with the operations executed one at a time, in both registries each
\* stored record's id is the key it is stored under, every stored key is at
\* least 1 and less than the registry's counter, and no step decreases a
\* counter.
C17_KeysBelowCounter ==
    /\ [](KeysInRange(_IN_MEMORY_USERS, _NEXT_ID) /\ KeysInRange(_ENTITIES, _ENTITIES_NEXT_ID))
    /\ [][_NEXT_ID' >= _NEXT_ID /\ _ENTITIES_NEXT_ID' >= _ENTITIES_NEXT_ID]_vars

\* User 1 was deleted and user 2 is stored: the counter has moved past every
\* key issued, the stored one included
C17_Witness ==
    /\ DictKeys(_IN_MEMORY_USERS) = {2}
    /\ DictGet(_IN_MEMORY_USERS, 2)[1].id = 2
    /\ deleted.users = {1}
    /\ _NEXT_ID = 3

====
